---- MODULE Spec2Model ----
(***************************************************************************)
(* Alias on Create (Obsidian plugin).                                      *)
(*                                                                         *)
(* Text is modelled as a sequence of one-character strings, so that the    *)
(* regular expressions of the plugin are computed character by character.  *)
(***************************************************************************)
EXTENDS Integers, Sequences, FiniteSets, TLC

VARIABLES
  ready,       \* this.ready
  knownFiles,  \* this.knownFiles: the set of known paths
  vault,       \* the host's documents: path -> file, or NoFile
  pipes,       \* the create-handler instances started so far, in start order
  budget,      \* corpus changes the environment may still make
  lastEvt,     \* the last notification delivered and what the handler did
  lk,          \* Link Matcher / Link Rewriter run on a whole corpus
  mg,          \* Alias Merger run on one document
  wt           \* one stabilization wait against a clock

vars == <<ready, knownFiles, vault, pipes, budget, lastEvt, lk, mg, wt>>
mainVars == <<ready, knownFiles, vault, pipes, budget, lastEvt>>

(***************************************************************************)
(* Text helpers (JavaScript String primitives used by the plugin).         *)
(***************************************************************************)

\* Smallest element of a non-empty set of integers.
MinOf(S) == CHOOSE k \in S : \A j \in S : k <= j

\* Index of the first character at or after `from` that belongs to `stop`;
\* Len(c) + 1 when there is none.  This is where a negated character class
\* such as [^\]|]* stops.
FirstIdx(c, from, stop) ==
  LET cand == {k \in from..Len(c) : c[k] \in stop}
  IN  IF cand = {} THEN Len(c) + 1 ELSE MinOf(cand)

\* c has s at index i.
HasAt(c, i, s) ==
  /\ i >= 1
  /\ i + Len(s) - 1 <= Len(c)
  /\ SubSeq(c, i, i + Len(s) - 1) = s

\* String.prototype.includes
Includes(c, s) == \E i \in 1..(Len(c) + 1) : HasAt(c, i, s)

\* Array.prototype.includes
ArrIncludes(arr, x) == \E i \in 1..Len(arr) : arr[i] = x

\* target.split("#")[0]
SplitHashFirst(target) == SubSeq(target, 1, FirstIdx(target, 1, {"#"}) - 1)

(***************************************************************************)
(* Link Rewriter: patchBareLinks.                                          *)
(***************************************************************************)

\* One attempt of /\[\[([^\]|]*?)(\|[^\]]*)?\]\]/ at index i.
\* The lazy target can only end at the first "]" or "|" (no shorter target
\* is followed by "|" or "]]", no longer one stays inside the class), and
\* the greedy alias can only end at the first "]".
BracketMatchAt(c, i) ==
  LET p == FirstIdx(c, i + 2, {"]", "|"})
      q == FirstIdx(c, p + 1, {"]"})
      no == [ok |-> FALSE, last |-> i, target |-> <<>>, alias |-> <<>>]
  IN  IF ~HasAt(c, i, <<"[", "[">>) \/ p > Len(c) THEN no
      ELSE IF c[p] = "]"
        THEN IF HasAt(c, p, <<"]", "]">>)
               THEN [ok |-> TRUE, last |-> p + 1,
                     target |-> SubSeq(c, i + 2, p - 1), alias |-> <<>>]
               ELSE no
        ELSE IF HasAt(c, q, <<"]", "]">>)
               THEN [ok |-> TRUE, last |-> q + 1,
                     target |-> SubSeq(c, i + 2, p - 1),
                     alias |-> SubSeq(c, p, q - 1)]
               ELSE no

\* A replacer that also rewrites links that already carry a pipe alias.
PatchReplacerIgnoringAlias(c, i, m, linkText) ==
  IF SplitHashFirst(m.target) = linkText
    THEN <<"[", "[">> \o m.target \o <<"|">> \o linkText \o <<"]", "]">>
    ELSE SubSeq(c, i, m.last)

\* A replacer that compares the whole target, fragment included.
PatchReplacerNoSplit(c, i, m, linkText) ==
  IF m.alias # <<>> THEN SubSeq(c, i, m.last)
  ELSE IF m.target = linkText
    THEN <<"[", "[">> \o m.target \o <<"|">> \o linkText \o <<"]", "]">>
    ELSE SubSeq(c, i, m.last)

\* A replacer that appends the alias to whatever the brackets hold.
PatchReplacerAppendAlways(c, i, m, linkText) ==
  IF SplitHashFirst(m.target) = linkText
    THEN <<"[", "[">> \o m.target \o m.alias \o <<"|">> \o linkText
           \o <<"]", "]">>
    ELSE SubSeq(c, i, m.last)

\* The replacer callback: what one match m, found at index i, is replaced by.
PatchReplacer(c, i, m, linkText) ==
  IF m.alias # <<>> THEN SubSeq(c, i, m.last)
  ELSE IF SplitHashFirst(m.target) = linkText
    THEN <<"[", "[">> \o m.target \o <<"|">> \o linkText \o <<"]", "]">>
    ELSE SubSeq(c, i, m.last)

\* content.replace(regex /g, replacer) from index i on: matches are taken
\* leftmost first and do not overlap.
RECURSIVE ReplaceFrom(_, _, _)
ReplaceFrom(c, i, linkText) ==
  IF i > Len(c) THEN <<>>
  ELSE LET m == BracketMatchAt(c, i)
       IN  IF m.ok
             THEN PatchReplacer(c, i, m, linkText)
                    \o ReplaceFrom(c, m.last + 1, linkText)
             ELSE <<c[i]>> \o ReplaceFrom(c, i + 1, linkText)

\* The new content patchBareLinks computes for one document (the document
\* is skipped, i.e. kept, when the pre-check fails).
PatchContent(content, linkText) ==
  IF ~Includes(content, <<"[", "[">> \o linkText) THEN content
  ELSE ReplaceFrom(content, 1, linkText)

(***************************************************************************)
(* Link Matcher: findMatchingLinks.                                        *)
(***************************************************************************)

\* A matcher that reports the file name for every link, piped or not.
TargetMatchAtNoLabel(c, i, linkText) ==
  LET p == i + 2 + Len(linkText)
      r == IF p <= Len(c) /\ c[p] = "#"
             THEN FirstIdx(c, p + 1, {"]", "|"}) ELSE p
      q == FirstIdx(c, r + 1, {"]"})
      no == [ok |-> FALSE, last |-> i, label |-> <<>>]
  IN  IF ~HasAt(c, i, <<"[", "[">> \o linkText) \/ r > Len(c) THEN no
      ELSE IF c[r] = "|"
        THEN IF q > r + 1 /\ HasAt(c, q, <<"]", "]">>)
               THEN [ok |-> TRUE, last |-> q + 1, label |-> linkText]
               ELSE no
        ELSE IF HasAt(c, r, <<"]", "]">>)
               THEN [ok |-> TRUE, last |-> r + 1, label |-> linkText]
               ELSE no

\* One attempt of  \[\[ T (#[^\]|]*)? (\|([^\]]+))? \]\]  at index i.
\* label is match[3] ? match[3] : linkText.
TargetMatchAt(c, i, linkText) ==
  LET p == i + 2 + Len(linkText)
      r == IF p <= Len(c) /\ c[p] = "#"
             THEN FirstIdx(c, p + 1, {"]", "|"}) ELSE p
      q == FirstIdx(c, r + 1, {"]"})
      no == [ok |-> FALSE, last |-> i, label |-> <<>>]
  IN  IF ~HasAt(c, i, <<"[", "[">> \o linkText) \/ r > Len(c) THEN no
      ELSE IF c[r] = "|"
        THEN IF q > r + 1 /\ HasAt(c, q, <<"]", "]">>)
               THEN [ok |-> TRUE, last |-> q + 1,
                     label |-> SubSeq(c, r + 1, q - 1)]
               ELSE no
        ELSE IF HasAt(c, r, <<"]", "]">>)
               THEN [ok |-> TRUE, last |-> r + 1, label |-> linkText]
               ELSE no

\* aliasSet.add(alias): a JavaScript Set keeps insertion order.
SetAdd(arr, x) == IF ArrIncludes(arr, x) THEN arr ELSE Append(arr, x)

\* The while (pattern.exec(content)) loop over one document, from index i,
\* starting from the result acc = [hasLinks, aliases] so far.
RECURSIVE ExecLoop(_, _, _, _)
ExecLoop(c, i, linkText, acc) ==
  IF i > Len(c) THEN acc
  ELSE LET m == TargetMatchAt(c, i, linkText)
       IN  IF m.ok
             THEN ExecLoop(c, m.last + 1, linkText,
                           [hasLinks |-> TRUE,
                            aliases |-> SetAdd(acc.aliases, m.label)])
             ELSE ExecLoop(c, i + 1, linkText, acc)

\* The body of the for loop of findMatchingLinks for one document.
ScanContent(content, linkText, acc) ==
  IF ~Includes(content, <<"[", "[">> \o linkText) THEN acc
  ELSE ExecLoop(content, 1, linkText, acc)

\* A matcher that also scans the newly created file.
FindInFileNoSkip(path, content, linkText, newPath, acc) ==
  ScanContent(content, linkText, acc)

\* One document of the for loop of findMatchingLinks: the new file itself
\* is skipped.
FindInFile(path, content, linkText, newPath, acc) ==
  IF path = newPath THEN acc ELSE ScanContent(content, linkText, acc)

\* findMatchingLinks run to completion on a corpus that does not change
\* meanwhile: mdFiles is getMarkdownFiles(), read[p] the content of p.
RECURSIVE FindLoop(_, _, _, _, _, _)
FindLoop(mdFiles, k, read, linkText, newPath, acc) ==
  IF k > Len(mdFiles) THEN acc
  ELSE FindLoop(mdFiles, k + 1, read, linkText, newPath,
                FindInFile(mdFiles[k], read[mdFiles[k]], linkText, newPath, acc))

findMatchingLinks(mdFiles, read, linkText, newPath) ==
  FindLoop(mdFiles, 1, read, linkText, newPath,
           [hasLinks |-> FALSE, aliases |-> <<>>])

\* A rewriter that does not skip the newly created file.
PatchInFileNoSkip(path, content, linkText, newPath) ==
  PatchContent(content, linkText)

\* One document of the for loop of patchBareLinks: the content to write,
\* equal to the content read when nothing is to be written.
PatchInFile(path, content, linkText, newPath) ==
  IF path = newPath THEN content ELSE PatchContent(content, linkText)

\* patchBareLinks run to completion on a corpus that does not change
\* meanwhile: the corpus after the pass and patchedCount.
RECURSIVE PatchLoop(_, _, _, _, _, _)
PatchLoop(mdFiles, k, read, linkText, newPath, n) ==
  IF k > Len(mdFiles) THEN [docs |-> read, patchedCount |-> n]
  ELSE LET p == mdFiles[k]
           newContent == PatchInFile(p, read[p], linkText, newPath)
       IN  IF newContent # read[p]
             THEN PatchLoop(mdFiles, k + 1, [read EXCEPT ![p] = newContent],
                            linkText, newPath, n + 1)
             ELSE PatchLoop(mdFiles, k + 1, read, linkText, newPath, n)

patchBareLinks(mdFiles, read, linkText, newPath) ==
  PatchLoop(mdFiles, 1, read, linkText, newPath, 0)

(***************************************************************************)
(* The Link Matcher and the Link Rewriter run on whole corpora.             *)
(*                                                                         *)
(* The documents are written down as sequences of segments, a segment      *)
(* being a bracket group (target, fragment, pipe label) or plain text, so  *)
(* that what a pass ought to do can be read off the segments while the     *)
(* plugin computes on the characters.                                      *)
(***************************************************************************)

MaxSegs == 2     \* segments of the first note
MaxPasses == 2   \* rewriter passes run in a row

Ca == <<"a">>
Cab == <<"a", "b">>
CA == <<"A">>
Ch == <<"h">>
Ck == <<"k">>
Frag == <<"#", "s">>

\* The basenames a created document may have.
Targets == {Ca, Cab}

\* [[target frag]] or, with pipe, [[target frag | label]], after the stray
\* text pre; the target holds no "#", the fragment is empty or starts with
\* "#".
Ref(pre, target, frag, pipe, label) ==
  [ref |-> TRUE, pre |-> pre, target |-> target, frag |-> frag,
   pipe |-> pipe, label |-> label]

PlainText(t) ==
  [ref |-> FALSE, pre |-> t, target |-> <<>>, frag |-> <<>>,
   pipe |-> FALSE, label |-> <<>>]

Render(seg) ==
  IF ~seg.ref THEN seg.pre
  ELSE seg.pre \o <<"[", "[">> \o seg.target \o seg.frag
         \o (IF seg.pipe THEN <<"|">> \o seg.label ELSE <<>>)
         \o <<"]", "]">>

RECURSIVE RenderAll(_)
RenderAll(segs) ==
  IF segs = <<>> THEN <<>> ELSE Render(Head(segs)) \o RenderAll(Tail(segs))

Segments ==
  { Ref(<<>>, Ca, <<>>, FALSE, <<>>),      \* [[a]]
    Ref(<<>>, Ca, <<>>, TRUE, Ch),         \* [[a|h]]
    Ref(<<>>, Ca, <<>>, TRUE, Ca),         \* [[a|a]]
    Ref(<<>>, Ca, Frag, FALSE, <<>>),      \* [[a#s]]
    Ref(<<>>, Ca, Frag, TRUE, Ch),         \* [[a#s|h]]
    Ref(<<>>, Cab, <<>>, FALSE, <<>>),     \* [[ab]]
    Ref(<<>>, Cab, <<>>, TRUE, Ca),        \* [[ab|a]]
    Ref(<<>>, CA, <<>>, FALSE, <<>>),      \* [[A]]
    Ref(<<"[">>, Ca, <<>>, FALSE, <<>>),   \* [[[a]]
    Ref(<<>>, Ca, <<>>, TRUE, <<>>),       \* [[a|]]
    PlainText(<<"x">>),
    PlainText(<<"]">>) }

SegSeqs(n) == UNION {[1..k -> Segments] : k \in 0..n}

\* The corpus of a run: two notes and the newly created document, in the
\* order getMarkdownFiles() lists them.
HFiles == <<"n1.md", "new.md", "n2.md">>
HNew == "new.md"
HOthers == {"n1.md", "n2.md"}

SecondNotes ==
  { <<>>,
    <<Ref(<<>>, Ca, <<>>, TRUE, Ck), PlainText(<<"x">>),
      Ref(<<>>, Cab, Frag, FALSE, <<>>)>> }       \* [[a|k]]x[[ab#s]]

NewNotes ==
  { <<>>,
    <<Ref(<<>>, Ca, <<>>, FALSE, <<>>),
      Ref(<<>>, Cab, <<>>, TRUE, Ck)>> }          \* [[a]][[ab|k]]

NoFound == [valid |-> FALSE, T |-> <<>>, hasLinks |-> FALSE, aliases |-> <<>>]

LkOff ==
  [on |-> FALSE, segs |-> <<>>, docs |-> <<>>, prev |-> <<>>, lastT |-> <<>>,
   prevT |-> <<>>, count |-> 0, passes |-> 0, found |-> NoFound]

LkInit ==
  \E s1 \in SegSeqs(MaxSegs), s2 \in SecondNotes, s3 \in NewNotes :
    LET segs == [p \in {"n1.md", "new.md", "n2.md"} |->
                   IF p = "n1.md" THEN s1 ELSE IF p = "n2.md" THEN s2 ELSE s3]
        docs == [p \in DOMAIN segs |-> RenderAll(segs[p])]
    IN  lk = [on |-> TRUE, segs |-> segs, docs |-> docs, prev |-> docs,
              lastT |-> <<>>, prevT |-> <<>>, count |-> 0, passes |-> 0,
              found |-> NoFound]

\* findMatchingLinks(linkText, newFile) on the current corpus.
LkFind(T) ==
  /\ lk.on
  /\ ~(lk.found.valid /\ lk.found.T = T)
  /\ LET r == findMatchingLinks(HFiles, lk.docs, T, HNew)
     IN  lk' = [lk EXCEPT !.found = [valid |-> TRUE, T |-> T,
                                     hasLinks |-> r.hasLinks,
                                     aliases |-> r.aliases]]

\* patchBareLinks(linkText, newFile) on the current corpus.
LkPatch(T) ==
  /\ lk.on
  /\ lk.passes < MaxPasses
  /\ LET r == patchBareLinks(HFiles, lk.docs, T, HNew)
     IN  lk' = [lk EXCEPT !.docs = r.docs, !.prev = lk.docs,
                          !.prevT = lk.lastT, !.lastT = T,
                          !.count = r.patchedCount, !.passes = @ + 1,
                          !.found = NoFound]

(***************************************************************************)
(* The plugin in its host: documents, notifications, timers.                *)
(***************************************************************************)

MaxEnvEvents == 2   \* corpus changes made by the user and other plugins
MaxPipelines == 2   \* create-handler instances started in one run

stabilizeMs == 500
maxWaitMs == 5000

MdPaths == {"n.md", "a.md", "b.md"}
OtherPaths == {"p.png"}
FolderPaths == {"d"}
Paths == MdPaths \cup OtherPaths \cup FolderPaths

\* file instanceof TFile
IsTFile(p) == p \notin FolderPaths
\* file.extension === "md"
IsMd(p) == p \in MdPaths
\* file.basename
Basename(p) ==
  IF p = "a.md" THEN <<"a">> ELSE IF p = "b.md" THEN <<"b">>
  ELSE IF p = "n.md" THEN <<"n">> ELSE <<"p">>

\* frontmatter.aliases as processFrontMatter hands it to the callback:
\* absent, one string, or an array of strings.
NoAliases == [t |-> "none", v |-> <<>>]
StrAliases(x) == [t |-> "str", v |-> <<x>>]
ListAliases(l) == [t |-> "list", v |-> l]
\* aliases written as a mapping (aliases: {k: h}): an object that is neither
\* a string nor an array.
MapAliases == [t |-> "map", v |-> <<>>]
\* The callback threw (TypeError): processFrontMatter rejects and writes
\* nothing.
Raised == [t |-> "raised", v |-> <<>>]

\* A document: its aliases property and the text after the metadata block.
NoFile == [exists |-> FALSE, fm |-> NoAliases, body |-> <<>>]
File(fm, body) == [exists |-> TRUE, fm |-> fm, body |-> body]
EmptyFile == File(NoAliases, <<>>)

\* this.app.vault.getMarkdownFiles(), in the host's enumeration order.
FileOrder == <<"n.md", "a.md", "b.md">>
getMarkdownFiles(v) == SelectSeq(FileOrder, LAMBDA p : v[p].exists)
\* this.app.vault.getFiles()
getFiles(v) == {p \in Paths : IsTFile(p) /\ v[p].exists}

NoTimer == -1

NoPipe ==
  [file |-> "", name |-> <<>>, pc |-> "none", stabilizeTimer |-> NoTimer,
   maxTimer |-> NoTimer, listening |-> FALSE, mdFiles |-> <<>>, k |-> 0,
   hasLinks |-> FALSE, aliases |-> <<>>, buf |-> NoFile, patchedCount |-> 0,
   ai |-> 0, wrote |-> FALSE, touched |-> FALSE]

MgOff ==
  [on |-> FALSE, kind |-> "", src |-> <<>>, docs |-> <<>>, labels |-> <<>>,
   raised |-> FALSE]

NoEvt == [kind |-> "none", path |-> "", did |-> "none"]

WtOff ==
  [on |-> FALSE, pipe |-> NoPipe, now |-> 0, lastMod |-> NoTimer,
   resolves |-> 0, resolvedAt |-> NoTimer]

(***************************************************************************)
(* addAliasViaProcessFrontMatter: the callback given to processFrontMatter. *)
(***************************************************************************)

\* A callback that pushes the alias without looking for it first.
addAliasAlwaysPush(fm, aliasText) ==
  ListAliases(Append(fm.v, aliasText))

\* A callback that replaces the alias list by the new alias.
addAliasOverwrite(fm, aliasText) ==
  ListAliases(<<aliasText>>)

\* An object without an `includes` method makes line 214 throw.
addAliasViaProcessFrontMatter(fm, aliasText) ==
  LET a1 == IF fm.t = "none" THEN ListAliases(<<>>) ELSE fm
      a2 == IF a1.t = "str" THEN ListAliases(a1.v) ELSE a1
  IN  IF a2.t = "map" THEN Raised
      ELSE IF ArrIncludes(a2.v, aliasText) THEN a2
      ELSE ListAliases(Append(a2.v, aliasText))

(***************************************************************************)
(* addAliasFrontmatter: the Alias Merger working on the text (main.js,     *)
(* main.ts).                                                                *)
(***************************************************************************)

\* \s, the line terminators that "^" (with the m flag) and "." look at, and
\* the quote characters of /^['"]|['"]$/g.
WS == {" ", "\t", "\n", "\r"}
LineTerm == {"\n", "\r"}
Quotes == {"'", "\""}

Dashes == <<"-", "-", "-">>
AliasesKey == <<"a", "l", "i", "a", "s", "e", "s">>

\* Index of the first character at or after `from` that is not in `skip`.
FirstNotIn(c, from, skip) ==
  LET cand == {k \in from..Len(c) : c[k] \notin skip}
  IN  IF cand = {} THEN Len(c) + 1 ELSE MinOf(cand)

\* content.match(/^---\r?\n([\s\S]*?)\r?\n---/): from is where group 1
\* starts, to where it ends (the lazy group stops at the first place that
\* is followed by \r?\n---).
FmMatch(c) ==
  LET from == IF HasAt(c, 1, Dashes \o <<"\r", "\n">>) THEN 6 ELSE 5
      ends == {e \in (from - 1)..Len(c) :
                 \/ HasAt(c, e + 1, <<"\n">> \o Dashes)
                 \/ HasAt(c, e + 1, <<"\r", "\n">> \o Dashes)}
  IN  IF /\ \/ HasAt(c, 1, Dashes \o <<"\n">>)
            \/ HasAt(c, 1, Dashes \o <<"\r", "\n">>)
         /\ ends # {}
        THEN [ok |-> TRUE, from |-> from, to |-> MinOf(ends)]
        ELSE [ok |-> FALSE, from |-> 0, to |-> 0]

\* The places where "^" matches under the m flag.
LineStarts(c) == {i \in 1..Len(c) : i = 1 \/ c[i - 1] \in LineTerm}

\* /aliases\s*:/ tried at index i: the index of the colon, or 0.
AliasesKeyAt(c, i) ==
  LET j == FirstNotIn(c, i + Len(AliasesKey), WS)
  IN  IF HasAt(c, i, AliasesKey) /\ j <= Len(c) /\ c[j] = ":" THEN j ELSE 0

\* /^aliases\s*:/m.test(fmBody)
HasAliasesField(fmBody) ==
  \E i \in LineStarts(fmBody) : AliasesKeyAt(fmBody, i) > 0

\* /^(aliases\s*:\s*)\[([^\]]*)\]/m tried at index i: the indexes of "["
\* and "]", or 0.
InlineAt(c, i) ==
  LET j == AliasesKeyAt(c, i)
      b == FirstNotIn(c, j + 1, WS)
      e == FirstIdx(c, b + 1, {"]"})
  IN  IF j > 0 /\ b <= Len(c) /\ c[b] = "[" /\ e <= Len(c)
        THEN [ok |-> TRUE, start |-> i, open |-> b, close |-> e]
        ELSE [ok |-> FALSE, start |-> 0, open |-> 0, close |-> 0]

\* fmBody.match(/^(aliases\s*:\s*)\[([^\]]*)\]/m): the leftmost match.
InlineMatch(fmBody) ==
  LET at == {i \in LineStarts(fmBody) : InlineAt(fmBody, i).ok}
  IN  IF at = {} THEN InlineAt(fmBody, 0) ELSE InlineAt(fmBody, MinOf(at))

\* String.prototype.split(sep) for a one-character separator.
RECURSIVE Split(_, _)
Split(str, sep) ==
  LET i == FirstIdx(str, 1, {sep})
  IN  IF i > Len(str) THEN <<str>>
      ELSE <<SubSeq(str, 1, i - 1)>> \o Split(SubSeq(str, i + 1, Len(str)), sep)

\* Array.prototype.join(sep)
RECURSIVE Join(_, _)
Join(parts, sep) ==
  IF parts = <<>> THEN <<>>
  ELSE IF Len(parts) = 1 THEN parts[1]
  ELSE parts[1] \o sep \o Join(Tail(parts), sep)

\* String.prototype.trim
Trim(str) ==
  LET a == FirstNotIn(str, 1, WS)
      keep == {k \in 1..Len(str) : str[k] \notin WS}
  IN  IF keep = {} THEN <<>>
      ELSE SubSeq(str, a, CHOOSE k \in keep : \A j \in keep : j <= k)

\* .replace(/^['"]|['"]$/g, "")
StripQuotes(str) ==
  LET s1 == IF str # <<>> /\ str[1] \in Quotes THEN Tail(str) ELSE str
  IN  IF s1 # <<>> /\ s1[Len(s1)] \in Quotes
        THEN SubSeq(s1, 1, Len(s1) - 1) ELSE s1

\* inlineMatch[2].split(",").map(trim and strip quotes).filter(Boolean)
InlineEntries(inner) ==
  LET parts == Split(inner, ",")
      clean == [k \in DOMAIN parts |-> StripQuotes(Trim(parts[k]))]
  IN  SelectSeq(clean, LAMBDA x : x # <<>>)

\* str.replace(pattern, replacement) for a pattern given as a string: the
\* first occurrence is replaced (the text has no "$").
ReplaceFirst(str, pattern, replacement) ==
  LET i == MinOf({k \in 1..(Len(str) + 1) : HasAt(str, k, pattern)})
  IN  SubSeq(str, 1, i - 1) \o replacement
        \o SubSeq(str, i + Len(pattern), Len(str))

\* line.match(/^\s*-\s+(.*)/): group 1, which ends at a line terminator.
ItemAt(line) ==
  LET d == FirstNotIn(line, 1, WS)
      t == FirstNotIn(line, d + 1, WS)
      e == FirstIdx(line, t, LineTerm)
  IN  IF d <= Len(line) /\ line[d] = "-" /\ t > d + 1
        THEN [ok |-> TRUE, text |-> SubSeq(line, t, e - 1)]
        ELSE [ok |-> FALSE, text |-> <<>>]

\* The for loop that collects existingAliases from line i on.
RECURSIVE BlockEntries(_, _)
BlockEntries(blockLines, i) ==
  IF i > Len(blockLines) \/ ~ItemAt(blockLines[i]).ok THEN <<>>
  ELSE <<StripQuotes(ItemAt(blockLines[i]).text)>>
         \o BlockEntries(blockLines, i + 1)

\* blockLines.findIndex(l => /^aliases\s*:/.test(l)), counted from 1; 0
\* stands for the -1 of findIndex.
AliasIdx(blockLines) ==
  LET at == {k \in DOMAIN blockLines : AliasesKeyAt(blockLines[k], 1) > 0}
  IN  IF at = {} THEN 0 ELSE MinOf(at)

\* blockLines.splice(insertIdx, 0, item), insertIdx counted from 0.
Splice(arr, insertIdx, item) ==
  IF insertIdx >= Len(arr) THEN Append(arr, item)
  ELSE SubSeq(arr, 1, insertIdx) \o <<item>> \o SubSeq(arr, insertIdx + 1, Len(arr))

BlockItem(aliasText) == <<" ", " ", "-", " ">> \o aliasText

\* The inline-list branch: the new fmBody.
MergeInline(fmBody, aliasText) ==
  LET m == InlineMatch(fmBody)
      existing == InlineEntries(SubSeq(fmBody, m.open + 1, m.close - 1))
      newAliases == AliasesKey \o <<":", " ", "[">>
                      \o Join(Append(existing, aliasText), <<",", " ">>)
                      \o <<"]">>
  IN  IF ArrIncludes(existing, aliasText) THEN fmBody
      ELSE SubSeq(fmBody, 1, m.start - 1) \o newAliases
             \o SubSeq(fmBody, m.close + 1, Len(fmBody))

\* The block-list branch: the new fmBody.
MergeBlock(fmBody, aliasText) ==
  LET blockLines == Split(fmBody, "\n")
      aliasIdx == AliasIdx(blockLines)
      existingAliases == BlockEntries(blockLines, aliasIdx + 1)
  IN  IF ArrIncludes(existingAliases, aliasText) THEN fmBody
      ELSE Join(Splice(blockLines, aliasIdx + Len(existingAliases),
                       BlockItem(aliasText)), <<"\n">>)

\* A merger that forgets the closing delimiter of the block it creates.
addAliasFrontmatterUnclosed(content, aliasText) ==
  Dashes \o <<"\n">> \o AliasesKey \o <<":", "\n">>
    \o BlockItem(aliasText) \o <<"\n">> \o content

\* addAliasFrontmatter(file, aliasText): the content it writes.
addAliasFrontmatter(content, aliasText) ==
  LET fmMatch == FmMatch(content)
      fmBody == SubSeq(content, fmMatch.from, fmMatch.to)
      newFmBody ==
        IF HasAliasesField(fmBody)
          THEN IF InlineMatch(fmBody).ok THEN MergeInline(fmBody, aliasText)
               ELSE MergeBlock(fmBody, aliasText)
          ELSE fmBody \o <<"\n">> \o AliasesKey \o <<":", "\n">>
                 \o BlockItem(aliasText)
  IN  IF fmMatch.ok
        THEN IF newFmBody = fmBody THEN content
             ELSE ReplaceFirst(content, fmBody, newFmBody)
        ELSE Dashes \o <<"\n">> \o AliasesKey \o <<":", "\n">>
               \o BlockItem(aliasText) \o <<"\n">> \o Dashes \o <<"\n">>
               \o content

(***************************************************************************)
(* The create handler, from one suspension point to the next.               *)
(***************************************************************************)

\* The loop test `if (mdFile.path === newFile.path) continue`.
SkipNewFile(q) ==
  IF q.k <= Len(q.mdFiles) /\ q.mdFiles[q.k] = q.file
    THEN [q EXCEPT !.k = @ + 1] ELSE q

\* for (const alias of linkInfo.aliases) await addAliasViaProcessFrontMatter
EnterMerge(q) ==
  IF q.aliases = <<>> THEN [q EXCEPT !.pc = "done"]
  ELSE [q EXCEPT !.pc = "merge", !.ai = 1]

\* patchBareLinks up to its first await.
EnterPatch(q, v) ==
  LET r == SkipNewFile([q EXCEPT !.pc = "patch",
                                 !.mdFiles = getMarkdownFiles(v), !.k = 1,
                                 !.patchedCount = 0])
  IN  IF r.k <= Len(r.mdFiles) THEN r ELSE EnterMerge(r)

\* A handler that goes on to patch and merge whatever the matcher found.
AfterMatchingNoCheck(q, v) == EnterPatch(q, v)

\* if (!linkInfo.hasLinks) return; else patch, then merge.
AfterMatching(q, v) ==
  IF ~q.hasLinks THEN [q EXCEPT !.pc = "skipped"] ELSE EnterPatch(q, v)

\* The handler after the document at q.k has been dealt with, up to the
\* next await.
Continue(q, v) ==
  LET r == SkipNewFile(q)
  IN  IF r.k <= Len(r.mdFiles) THEN r
      ELSE IF r.pc = "find" THEN AfterMatching(r, v)
      ELSE EnterMerge(r)

\* findMatchingLinks up to its first await.
EnterFind(q, v) ==
  Continue([q EXCEPT !.pc = "find", !.mdFiles = getMarkdownFiles(v),
                     !.k = 1, !.hasLinks = FALSE, !.aliases = <<>>], v)

\* A handler that calls waitForFileStable without awaiting it: matching
\* starts at once.
NewPipeNoAwait(p) ==
  EnterFind([NoPipe EXCEPT !.file = p, !.name = Basename(p)], vault)

\* A wait without the maxWaitMs timer.
NewPipeNoCeiling(p) ==
  [NoPipe EXCEPT !.file = p, !.name = Basename(p), !.pc = "waiting",
                 !.stabilizeTimer = stabilizeMs, !.listening = TRUE]

\* waitForFileStable: the listener and the two timers of a fresh wait.
NewPipe(p) ==
  [NoPipe EXCEPT !.file = p, !.name = Basename(p), !.pc = "waiting",
                 !.stabilizeTimer = stabilizeMs, !.maxTimer = maxWaitMs,
                 !.listening = TRUE]

\* A done() that resolves without offref and without clearing the
\* maxWaitMs timer.
DoneKeepsListener(q, v) ==
  EnterFind([q EXCEPT !.stabilizeTimer = NoTimer], v)

\* done(): offref, clearTimeout twice, resolve; the handler then runs on.
Done(q, v) ==
  EnterFind([q EXCEPT !.listening = FALSE, !.stabilizeTimer = NoTimer,
                      !.maxTimer = NoTimer], v)

\* A wait whose modify listener does not restart the stabilize timer.
NotifyModifyNoReset(ps, p) == ps

\* A modify listener that restarts the maxWaitMs timer too.
NotifyModifyResetsCeiling(ps, p) ==
  [i \in DOMAIN ps |->
     IF ps[i].listening /\ ps[i].file = p
       THEN [ps[i] EXCEPT !.stabilizeTimer = stabilizeMs,
                          !.maxTimer = maxWaitMs]
       ELSE ps[i]]

\* The modify listeners of the waits in progress, for a write to p.
NotifyModify(ps, p) ==
  [i \in DOMAIN ps |->
     IF ps[i].listening /\ ps[i].file = p
       THEN [ps[i] EXCEPT !.stabilizeTimer = stabilizeMs] ELSE ps[i]]

\* Bookkeeping: a writer other than handler `me` wrote p, a document whose
\* handler is past its stabilization wait.
MarkTouched(ps, p, me) ==
  [i \in DOMAIN ps |->
     IF i # me /\ ps[i].file = p /\ ps[i].pc # "waiting"
       THEN [ps[i] EXCEPT !.touched = TRUE] ELSE ps[i]]

Wrote(ps, p, me) == NotifyModify(MarkTouched(ps, p, me), p)

\* A create handler with neither the ready check nor the late registration.
onCreateBeforeReady(p) ==
  IF ~IsTFile(p) THEN [kf |-> knownFiles, ps |-> pipes, did |-> "notfile"]
  ELSE IF ~IsMd(p) THEN [kf |-> knownFiles, ps |-> pipes, did |-> "notmd"]
  ELSE IF p \in knownFiles
    THEN [kf |-> knownFiles, ps |-> pipes, did |-> "known"]
  ELSE [kf |-> knownFiles \cup {p}, ps |-> Append(pipes, NewPipe(p)),
        did |-> "started"]

\* A create handler without the knownFiles check.
onCreateNoKnownCheck(p) ==
  IF ~ready THEN [kf |-> knownFiles, ps |-> pipes, did |-> "notready"]
  ELSE IF ~IsTFile(p) THEN [kf |-> knownFiles, ps |-> pipes, did |-> "notfile"]
  ELSE IF ~IsMd(p) THEN [kf |-> knownFiles, ps |-> pipes, did |-> "notmd"]
  ELSE [kf |-> knownFiles \cup {p}, ps |-> Append(pipes, NewPipe(p)),
        did |-> IF p \in knownFiles THEN "known" ELSE "started"]

\* A create handler that marks the path known only after its first await:
\* nothing is added to knownFiles when the handler starts.
onCreateMarksLate(p) ==
  IF ~ready THEN [kf |-> knownFiles, ps |-> pipes, did |-> "notready"]
  ELSE IF ~IsTFile(p) THEN [kf |-> knownFiles, ps |-> pipes, did |-> "notfile"]
  ELSE IF ~IsMd(p) THEN [kf |-> knownFiles, ps |-> pipes, did |-> "notmd"]
  ELSE IF p \in knownFiles
    THEN [kf |-> knownFiles, ps |-> pipes, did |-> "known"]
  ELSE [kf |-> knownFiles, ps |-> Append(pipes, NewPipe(p)),
        did |-> "started"]

\* vault.on("create"): the handler up to `await this.waitForFileStable`.
\* The listener is registered when the layout is ready, and tests ready.
onCreate(p) ==
  IF ~ready THEN [kf |-> knownFiles, ps |-> pipes, did |-> "notready"]
  ELSE IF ~IsTFile(p) THEN [kf |-> knownFiles, ps |-> pipes, did |-> "notfile"]
  ELSE IF ~IsMd(p) THEN [kf |-> knownFiles, ps |-> pipes, did |-> "notmd"]
  ELSE IF p \in knownFiles
    THEN [kf |-> knownFiles, ps |-> pipes, did |-> "known"]
  ELSE [kf |-> knownFiles \cup {p}, ps |-> Append(pipes, NewPipe(p)),
        did |-> "started"]

\* A plugin that does not track deletions.
onDeleteKeepsPath(p) == knownFiles

\* vault.on("delete")
onDelete(p) == IF IsTFile(p) THEN knownFiles \ {p} ELSE knownFiles

\* A rename handler that forgets the old path.
onRenameKeepsOld(p, oldPath) ==
  IF IsTFile(p) THEN knownFiles \cup {p} ELSE knownFiles

\* vault.on("rename")
onRename(p, oldPath) ==
  IF IsTFile(p) THEN (knownFiles \ {oldPath}) \cup {p}
  ELSE knownFiles \ {oldPath}

(***************************************************************************)
(* Notifications of the host.                                               *)
(***************************************************************************)

LkMgOff == lk = LkOff /\ mg = MgOff /\ wt = WtOff

\* workspace.onLayoutReady: the snapshot, ready, and the create listener.
LayoutReady ==
  /\ ~ready
  /\ ready' = TRUE
  /\ knownFiles' = knownFiles \cup getFiles(vault)
  /\ UNCHANGED <<vault, pipes, budget, lastEvt, lk, mg, wt>>

\* The create notification for p, the document being there.
DeliverCreate(p) ==
  LET h == onCreate(p)
  IN  /\ h.did = "started" => Len(pipes) < MaxPipelines
      /\ knownFiles' = h.kf
      /\ pipes' = h.ps
      /\ lastEvt' = [kind |-> "create", path |-> p, did |-> h.did]

\* The user (or another plugin, or sync) creates p.
VaultCreate(p) ==
  /\ ~vault[p].exists
  /\ budget > 0
  /\ budget' = budget - 1
  /\ vault' = [vault EXCEPT ![p] = EmptyFile]
  /\ DeliverCreate(p)
  /\ UNCHANGED <<ready, lk, mg, wt>>

\* A create notification for a document that is already there (startup
\* indexing, sync).
CreateNotify(p) ==
  /\ vault[p].exists
  /\ DeliverCreate(p)
  /\ UNCHANGED <<ready, vault, budget, lk, mg, wt>>

VaultDelete(p) ==
  /\ vault[p].exists
  /\ budget > 0
  /\ budget' = budget - 1
  /\ vault' = [vault EXCEPT ![p] = NoFile]
  /\ knownFiles' = onDelete(p)
  /\ pipes' = MarkTouched(pipes, p, 0)
  /\ lastEvt' = [kind |-> "delete", path |-> p, did |-> "none"]
  /\ UNCHANGED <<ready, lk, mg, wt>>

\* The TFile objects the handlers hold follow the rename.
Renamed(ps, old, new) ==
  [i \in DOMAIN ps |->
     [ps[i] EXCEPT
        !.file = IF @ = old THEN new ELSE @,
        !.mdFiles = [j \in DOMAIN @ |-> IF @[j] = old THEN new ELSE @[j]]]]

VaultRename(old, new) ==
  /\ old \in MdPaths /\ new \in MdPaths
  /\ vault[old].exists /\ ~vault[new].exists
  /\ budget > 0
  /\ budget' = budget - 1
  /\ vault' = [vault EXCEPT ![new] = vault[old], ![old] = NoFile]
  /\ knownFiles' = onRename(new, old)
  /\ pipes' = Renamed(MarkTouched(pipes, old, 0), old, new)
  /\ lastEvt' = [kind |-> "rename", path |-> new, did |-> "none"]
  /\ UNCHANGED <<ready, lk, mg, wt>>

\* What other plugins (a template engine) write into a created document.
Templates ==
  { File(StrAliases(<<"h">>), <<>>),
    File(ListAliases(<<<<"a">>>>), <<"[", "[", "b", "]", "]">>) }

\* Another plugin writes f into p.
ExternalModify(p, f) ==
  /\ p \in {"a.md", "b.md"}
  /\ vault[p].exists
  /\ f # vault[p]
  /\ budget > 0
  /\ budget' = budget - 1
  /\ vault' = [vault EXCEPT ![p] = f]
  /\ pipes' = Wrote(pipes, p, 0)
  /\ UNCHANGED <<ready, knownFiles, lastEvt, lk, mg, wt>>

\* Another plugin writes p without changing it: a modify notification.
Touch(p) ==
  /\ p \in MdPaths
  /\ vault[p].exists
  /\ pipes' = NotifyModify(pipes, p)
  /\ pipes' # pipes
  /\ UNCHANGED <<ready, knownFiles, vault, budget, lastEvt, lk, mg, wt>>

(***************************************************************************)
(* Timers of waitForFileStable.                                             *)
(***************************************************************************)

Waiting == {i \in DOMAIN pipes : pipes[i].pc = "waiting"}

PendingTimers ==
  {pipes[i].stabilizeTimer : i \in Waiting} \cup
  {pipes[i].maxTimer : i \in Waiting}

\* Time passes until the earliest pending timer is due.
Tick ==
  /\ Waiting # {}
  /\ LET d == MinOf(PendingTimers)
     IN  /\ d > 0
         /\ pipes' = [i \in DOMAIN pipes |->
                        IF i \in Waiting
                          THEN [pipes[i] EXCEPT !.stabilizeTimer = @ - d,
                                                !.maxTimer = @ - d]
                          ELSE pipes[i]]
  /\ UNCHANGED <<ready, knownFiles, vault, budget, lastEvt, lk, mg, wt>>

\* setTimeout(done, stabilizeMs) is due.
StabilizeTimerFires(i) ==
  /\ i \in Waiting
  /\ pipes[i].stabilizeTimer = 0
  /\ pipes' = [pipes EXCEPT ![i] = Done(pipes[i], vault)]
  /\ UNCHANGED <<ready, knownFiles, vault, budget, lastEvt, lk, mg, wt>>

\* The maxWaitMs timer is due.
MaxTimerFires(i) ==
  /\ i \in Waiting
  /\ pipes[i].maxTimer = 0
  /\ pipes' = [pipes EXCEPT ![i] = Done(pipes[i], vault)]
  /\ UNCHANGED <<ready, knownFiles, vault, budget, lastEvt, lk, mg, wt>>

(***************************************************************************)
(* The asynchronous steps of a handler: each await of a read or a write.    *)
(***************************************************************************)

Failed(q) == [q EXCEPT !.pc = "failed"]

\* findMatchingLinks: `await this.app.vault.read(mdFile)` returns.
FindStep(i) ==
  /\ i \in DOMAIN pipes
  /\ pipes[i].pc = "find"
  /\ LET q == pipes[i]
         f == vault[q.mdFiles[q.k]]
         acc == ScanContent(f.body, q.name,
                            [hasLinks |-> q.hasLinks, aliases |-> q.aliases])
     IN  pipes' = [pipes EXCEPT ![i] =
           IF ~f.exists THEN Failed(q)
           ELSE Continue([q EXCEPT !.hasLinks = acc.hasLinks,
                                   !.aliases = acc.aliases,
                                   !.k = @ + 1], vault)]
  /\ UNCHANGED <<ready, knownFiles, vault, budget, lastEvt, lk, mg, wt>>

\* patchBareLinks: `await this.app.vault.read(mdFile)` returns; the new
\* content is computed and, when it differs, its write is issued.
PatchRead(i) ==
  /\ i \in DOMAIN pipes
  /\ pipes[i].pc = "patch"
  /\ LET q == pipes[i]
         f == vault[q.mdFiles[q.k]]
         newContent == PatchContent(f.body, q.name)
     IN  pipes' = [pipes EXCEPT ![i] =
           IF ~f.exists THEN Failed(q)
           ELSE IF newContent # f.body
             THEN [q EXCEPT !.pc = "patchWrite",
                            !.buf = [f EXCEPT !.body = newContent]]
           ELSE Continue([q EXCEPT !.k = @ + 1], vault)]
  /\ UNCHANGED <<ready, knownFiles, vault, budget, lastEvt, lk, mg, wt>>

\* patchBareLinks: `await this.app.vault.modify(mdFile, newContent)`.
PatchWrite(i) ==
  /\ i \in DOMAIN pipes
  /\ pipes[i].pc = "patchWrite"
  /\ LET q == pipes[i]
         p == q.mdFiles[q.k]
     IN  IF ~vault[p].exists
           THEN /\ pipes' = [pipes EXCEPT ![i] = Failed(q)]
                /\ vault' = vault
           ELSE /\ vault' = [vault EXCEPT ![p] = q.buf]
                /\ pipes' = [Wrote(pipes, p, i) EXCEPT ![i] =
                     Continue([q EXCEPT !.buf = NoFile, !.pc = "patch",
                                        !.patchedCount = @ + 1,
                                        !.wrote = TRUE, !.k = @ + 1], vault')]
  /\ UNCHANGED <<ready, knownFiles, budget, lastEvt, lk, mg, wt>>

\* `await this.addAliasViaProcessFrontMatter(file, alias)`: the host reads
\* the metadata, runs the callback and writes the result in one step.
MergeStep(i) ==
  /\ i \in DOMAIN pipes
  /\ pipes[i].pc = "merge"
  /\ LET q == pipes[i]
         f == vault[q.file]
         fm == addAliasViaProcessFrontMatter(f.fm, q.aliases[q.ai])
         next == IF q.ai = Len(q.aliases)
                   THEN [q EXCEPT !.pc = "done"] ELSE [q EXCEPT !.ai = @ + 1]
     IN  IF ~f.exists \/ fm = Raised
           THEN /\ pipes' = [pipes EXCEPT ![i] = Failed(q)]
                /\ vault' = vault
           ELSE /\ vault' = [vault EXCEPT ![q.file].fm = fm]
                /\ pipes' = IF fm = f.fm
                              THEN [pipes EXCEPT ![i] = next]
                              ELSE [Wrote(pipes, q.file, i) EXCEPT ![i] =
                                      [next EXCEPT !.wrote = TRUE]]
  /\ UNCHANGED <<ready, knownFiles, budget, lastEvt, lk, mg, wt>>

(***************************************************************************)
(* The plugin from onload on.                                               *)
(***************************************************************************)

NoteBodies ==
  { RenderAll(<<Ref(<<>>, <<"a">>, <<>>, FALSE, <<>>),
                Ref(<<>>, <<"a">>, <<>>, TRUE, <<"h">>),
                Ref(<<>>, <<"b">>, <<>>, FALSE, <<>>)>>),   \* [[a]][[a|h]][[b]]
    RenderAll(<<Ref(<<>>, <<"a">>, Frag, TRUE, <<"h">>),
                PlainText(<<"x">>)>>),                      \* [[a#s|h]]x
    RenderAll(<<PlainText(<<"x">>),
                Ref(<<>>, <<"a", "b">>, <<>>, FALSE, <<>>)>>) }  \* x[[ab]]

Init ==
  /\ ready = FALSE
  /\ knownFiles = {}
  /\ \E body \in NoteBodies :
       vault = [p \in Paths |->
                  IF p = "n.md" THEN File(NoAliases, body) ELSE NoFile]
  /\ pipes = <<>>
  /\ budget = MaxEnvEvents
  /\ lastEvt = NoEvt
  /\ LkMgOff

Next ==
  \/ LayoutReady
  \/ \E p \in Paths : VaultCreate(p)
  \/ \E p \in Paths : CreateNotify(p)
  \/ \E p \in Paths : VaultDelete(p)
  \/ \E old \in MdPaths, new \in MdPaths : VaultRename(old, new)
  \/ \E p \in MdPaths, f \in Templates : ExternalModify(p, f)
  \/ \E p \in MdPaths : Touch(p)
  \/ Tick
  \/ \E i \in DOMAIN pipes : StabilizeTimerFires(i)
  \/ \E i \in DOMAIN pipes : MaxTimerFires(i)
  \/ \E i \in DOMAIN pipes : FindStep(i)
  \/ \E i \in DOMAIN pipes : PatchRead(i)
  \/ \E i \in DOMAIN pipes : PatchWrite(i)
  \/ \E i \in DOMAIN pipes : MergeStep(i)

Spec == Init /\ [][Next]_vars

(***************************************************************************)
(* The Link Matcher and the Link Rewriter as functions of a corpus.         *)
(***************************************************************************)

MainOff ==
  /\ ready = FALSE
  /\ knownFiles = {}
  /\ vault = [p \in Paths |-> NoFile]
  /\ pipes = <<>>
  /\ budget = 0
  /\ lastEvt = NoEvt

InitLinks == MainOff /\ LkInit /\ mg = MgOff /\ wt = WtOff

NextLinks ==
  \/ \E T \in Targets : LkFind(T) /\ UNCHANGED <<mainVars, mg, wt>>
  \/ \E T \in Targets : LkPatch(T) /\ UNCHANGED <<mainVars, mg, wt>>

SpecLinks == InitLinks /\ [][NextLinks]_vars

(***************************************************************************)
(* waitForFileStable against a clock: one wait, the modify notifications   *)
(* of the host, and the two timers.                                         *)
(***************************************************************************)

TicksPerQuiet == 5     \* clock steps in one stabilizeMs
MaxClockMs == 5600     \* the clock stops here

TickMs == stabilizeMs \div TicksPerQuiet

WtFile == "a.md"
WtPaths == {"a.md", "b.md", "d"}

WtInit ==
  wt = [on |-> TRUE, pipe |-> NewPipe(WtFile), now |-> 0, lastMod |-> NoTimer,
        resolves |-> 0, resolvedAt |-> NoTimer]

\* The timers of the wait that are set.
WtPending ==
  {t \in {wt.pipe.stabilizeTimer, wt.pipe.maxTimer} : t # NoTimer}

\* Time passes: a clock step, or less when a timer is due before that. A
\* timer that is due runs before time goes on.
WtTick ==
  /\ wt.on
  /\ wt.now < MaxClockMs
  /\ 0 \notin WtPending
  /\ LET d == MinOf({TickMs} \cup WtPending)
     IN  wt' = [wt EXCEPT
                  !.now = @ + d,
                  !.pipe.stabilizeTimer = IF @ = NoTimer THEN @ ELSE @ - d,
                  !.pipe.maxTimer = IF @ = NoTimer THEN @ ELSE @ - d]

\* The host delivers a modify notification for p to the listeners.
WtModify(p) ==
  /\ wt.on
  /\ wt' = [wt EXCEPT
              !.pipe = NotifyModify(<<wt.pipe>>, p)[1],
              !.lastMod = IF p = wt.pipe.file /\ wt.pipe.pc = "waiting"
                            THEN wt.now ELSE @]

\* A timer callback runs: done(), which returns at once when the wait has
\* resolved.
WtDone ==
  IF wt.pipe.pc # "waiting" THEN wt
  ELSE [wt EXCEPT !.pipe = Done(wt.pipe, vault), !.resolves = @ + 1,
                  !.resolvedAt = wt.now]

WtStabilizeTimerFires ==
  /\ wt.on
  /\ wt.pipe.stabilizeTimer = 0
  /\ wt' = [WtDone EXCEPT !.pipe.stabilizeTimer = NoTimer]

WtMaxTimerFires ==
  /\ wt.on
  /\ wt.pipe.maxTimer = 0
  /\ wt' = [WtDone EXCEPT !.pipe.maxTimer = NoTimer]

InitWait == MainOff /\ lk = LkOff /\ mg = MgOff /\ WtInit

NextWait ==
  \/ WtTick /\ UNCHANGED <<mainVars, lk, mg>>
  \/ \E p \in WtPaths : WtModify(p) /\ UNCHANGED <<mainVars, lk, mg>>
  \/ WtStabilizeTimerFires /\ UNCHANGED <<mainVars, lk, mg>>
  \/ WtMaxTimerFires /\ UNCHANGED <<mainVars, lk, mg>>

SpecWait == InitWait /\ [][NextWait]_vars

(***************************************************************************)
(* The scan passes in a corpus that loses documents: a vault that starts   *)
(* with two notes, one creation, and deletions while a handler runs.       *)
(***************************************************************************)

MaxScanEvents == 2   \* corpus changes made while the scans run

\* [[a]] and x
ScanBodies ==
  { RenderAll(<<Ref(<<>>, <<"a">>, <<>>, FALSE, <<>>)>>),
    RenderAll(<<PlainText(<<"x">>)>>) }

InitScan ==
  /\ ready = FALSE
  /\ knownFiles = {}
  /\ \E body \in NoteBodies, other \in ScanBodies :
       vault = [p \in Paths |->
                  IF p = "n.md" THEN File(NoAliases, body)
                  ELSE IF p = "b.md" THEN File(NoAliases, other)
                  ELSE NoFile]
  /\ pipes = <<>>
  /\ budget = MaxScanEvents
  /\ lastEvt = NoEvt
  /\ LkMgOff

NextScan ==
  \/ LayoutReady
  \/ \E p \in MdPaths : VaultCreate(p)
  \/ \E p \in MdPaths : VaultDelete(p)
  \/ Tick
  \/ \E i \in DOMAIN pipes : StabilizeTimerFires(i)
  \/ \E i \in DOMAIN pipes : FindStep(i)
  \/ \E i \in DOMAIN pipes : PatchRead(i)
  \/ \E i \in DOMAIN pipes : PatchWrite(i)
  \/ \E i \in DOMAIN pipes : MergeStep(i)

SpecScan == InitScan /\ [][NextScan]_vars

(***************************************************************************)
(* The plugin under a host that keeps running.                              *)
(***************************************************************************)

\* One turn of the host's event loop for the plugin: time passes up to the
\* next timer, a timer that is due runs its callback, or a read or a write
\* that a handler awaits returns.
HostStep ==
  \/ Tick
  \/ \E i \in DOMAIN pipes : StabilizeTimerFires(i)
  \/ \E i \in DOMAIN pipes : MaxTimerFires(i)
  \/ \E i \in DOMAIN pipes : FindStep(i)
  \/ \E i \in DOMAIN pipes : PatchRead(i)
  \/ \E i \in DOMAIN pipes : PatchWrite(i)
  \/ \E i \in DOMAIN pipes : MergeStep(i)

\* The event loop keeps running while it has something to run.  Nothing is
\* assumed of the user and of the other plugins.
Fairness == WF_vars(HostStep)

\* The plugin from onload on, in a vault whose one note is short.
InitLive ==
  /\ ready = FALSE
  /\ knownFiles = {}
  /\ \E body \in ScanBodies :
       vault = [p \in Paths |->
                  IF p = "n.md" THEN File(NoAliases, body) ELSE NoFile]
  /\ pipes = <<>>
  /\ budget = MaxEnvEvents
  /\ lastEvt = NoEvt
  /\ LkMgOff

\* Markdown documents are created and deleted, other plugins write them or
\* raise modify notifications at any moment, and the host runs the plugin.
NextLive ==
  \/ LayoutReady
  \/ \E p \in MdPaths : VaultCreate(p)
  \/ \E p \in MdPaths : VaultDelete(p)
  \/ \E p \in MdPaths, f \in Templates : ExternalModify(p, f)
  \/ \E p \in MdPaths : Touch(p)
  \/ HostStep

SpecFair == InitLive /\ [][NextLive]_vars /\ Fairness

(***************************************************************************)
(* The Alias Merger applied to one document, label after label: the text   *)
(* variant on the characters of a document, the processFrontMatter         *)
(* callback on the parsed metadata.                                         *)
(***************************************************************************)

MaxMerges == 2

Cx == <<"x">>
Chk == <<"h", ",", "k">>
Csh == <<" ", "h">>
MergeLabels == {Ch, Ck, Cx, Chk, Csh}

FieldT == <<"t", ":", " ", "k">>
FieldU == <<"u", ":", " ", "k">>

\* A document by its parts: the field lines before and after the aliases
\* field, the shape of the aliases field and its entries, and the body.
MetaDoc(kind, pre, entries, post, body) ==
  [kind |-> kind, pre |-> pre, entries |-> entries, post |-> post,
   body |-> body]

AliasLines(d) ==
  IF d.kind = "inline"
    THEN <<AliasesKey \o <<":", " ", "[">> \o Join(d.entries, <<",", " ">>)
             \o <<"]">>>>
  ELSE IF d.kind = "block"
    THEN <<AliasesKey \o <<":">>>>
           \o [k \in DOMAIN d.entries |-> BlockItem(d.entries[k])]
  ELSE IF d.kind = "scalar"
    THEN <<AliasesKey \o <<":", " ">> \o d.entries[1]>>
  ELSE <<>>

\* The characters of the document.
RenderMeta(d) ==
  IF d.kind = "none" THEN d.body
  ELSE Dashes \o <<"\n">>
         \o Join(d.pre \o AliasLines(d) \o d.post, <<"\n">>)
         \o <<"\n">> \o Dashes \o <<"\n">> \o d.body

MetaBodies == {<<>>, Cx}
\* An entry as it is written in the document: "h,k" in double quotes.
Cq == <<"\"">> \o Chk \o <<"\"">>
MetaEntries == {<<>>, <<Ch>>, <<Ck, Ch>>, <<Cq>>}

MetaDocs ==
  {MetaDoc("none", <<>>, <<>>, <<>>, b) :
     b \in MetaBodies \cup {Dashes \o <<"\n">> \o Cx}}
    \cup {MetaDoc("fields", p, <<>>, q, b) :
            p \in {<<>>, <<FieldT>>}, q \in {<<>>, <<FieldU>>},
            b \in MetaBodies}
    \cup {MetaDoc(k, p, e, q, b) :
            k \in {"inline", "block"}, p \in {<<>>, <<FieldT>>},
            e \in MetaEntries, q \in {<<>>, <<FieldU>>}, b \in MetaBodies}
    \cup {MetaDoc("scalar", p, <<Ch>>, q, b) :
            p \in {<<>>, <<FieldT>>}, q \in {<<>>, <<FieldU>>},
            b \in MetaBodies}

MetaFms ==
  {NoAliases, StrAliases(Ch), MapAliases}
    \cup {ListAliases(e) : e \in MetaEntries}

MgInit ==
  \/ \E d \in MetaDocs :
       mg = [on |-> TRUE, kind |-> "text", src |-> d,
             docs |-> <<RenderMeta(d)>>, labels |-> <<>>, raised |-> FALSE]
  \/ \E fm \in MetaFms :
       mg = [on |-> TRUE, kind |-> "fm", src |-> fm, docs |-> <<fm>>,
             labels |-> <<>>, raised |-> FALSE]

\* addAliasFrontmatter(file, aliasText): read, merge, modify.
MgText ==
  /\ mg.on /\ mg.kind = "text" /\ Len(mg.labels) < MaxMerges
  /\ \E aliasText \in MergeLabels :
       mg' = [mg EXCEPT
                !.labels = Append(@, aliasText),
                !.docs = Append(@, addAliasFrontmatter(mg.docs[Len(mg.docs)],
                                                       aliasText))]

\* addAliasViaProcessFrontMatter(file, aliasText): when the callback throws
\* the document stays as it is and the handler's loop over the labels ends.
MgFm ==
  /\ mg.on /\ mg.kind = "fm" /\ Len(mg.labels) < MaxMerges /\ ~mg.raised
  /\ \E aliasText \in MergeLabels :
       LET old == mg.docs[Len(mg.docs)]
           new == addAliasViaProcessFrontMatter(old, aliasText)
       IN  mg' = [mg EXCEPT
                    !.labels = Append(@, aliasText),
                    !.docs = Append(@, IF new = Raised THEN old ELSE new),
                    !.raised = (new = Raised)]

InitMerge == MainOff /\ lk = LkOff /\ wt = WtOff /\ MgInit

NextMerge ==
  \/ MgText /\ UNCHANGED <<mainVars, lk, wt>>
  \/ MgFm /\ UNCHANGED <<mainVars, lk, wt>>

SpecMerge == InitMerge /\ [][NextMerge]_vars

(***************************************************************************)
(* Properties.                                                              *)
(***************************************************************************)

Count(arr, x) == Cardinality({j \in 1..Len(arr) : arr[j] = x})
Occurrences(c, x) == Cardinality({j \in 1..Len(c) : HasAt(c, j, x)})
Elems(arr) == {arr[j] : j \in 1..Len(arr)}

RewrittenSeg(seg, T) ==
  IF seg.ref /\ ~seg.pipe /\ seg.pre = <<>> /\ seg.target = T
    THEN [seg EXCEPT !.pipe = TRUE, !.label = T]
    ELSE seg

RewrittenDoc(segs, T) == [j \in DOMAIN segs |-> RewrittenSeg(segs[j], T)]

GroupText(seg) == Render([seg EXCEPT !.pre = <<>>])

\* C3: every bracket group that carries a pipe before any rewriter pass is
\* still there, byte for byte, after any sequence of passes for any targets.
C3_PipedRefsKept ==
  lk.on =>
    \A p \in DOMAIN lk.docs : \A j \in DOMAIN lk.segs[p] :
      LET seg == lk.segs[p][j]
      IN  (seg.ref /\ seg.pipe) =>
            Occurrences(lk.docs[p], GroupText(seg))
              >= Occurrences(RenderAll(lk.segs[p]), GroupText(seg))

\* Passes for a and for ab have run over a note with [[a|a]] and [[ab|a]]
\* beside a second note that was rewritten.
C3_Witness ==
  /\ lk.on /\ lk.passes = 2 /\ lk.lastT # lk.prevT
  /\ lk.segs["n1.md"] = <<Ref(<<>>, Ca, <<>>, TRUE, Ca),
                          Ref(<<>>, Cab, <<>>, TRUE, Ca)>>
  /\ lk.docs["n2.md"] # RenderAll(lk.segs["n2.md"])

\* The references to T the matcher is to report: bracket groups whose
\* target is T, bare or with a non-empty label.
IsRefTo(seg, T) == seg.ref /\ seg.target = T
Reported(seg, T) == IsRefTo(seg, T) /\ (seg.pipe => seg.label # <<>>)
DisplayText(seg, T) == IF seg.pipe THEN seg.label ELSE T

ExpectedLabels(T) ==
  UNION { { DisplayText(lk.segs[p][j], T) :
              j \in {n \in DOMAIN lk.segs[p] : Reported(lk.segs[p][n], T)} } :
          p \in HOthers }

\* C4: the labels the matcher returns for T are exactly the display texts
\* of the references to T outside the new document, the label of a piped
\* reference and T for a bare one, without duplicates; hasLinks is true
\* exactly when there is such a reference.
C4_LabelDiscovery ==
  (lk.on /\ lk.found.valid /\ lk.passes = 0) =>
    LET exp == ExpectedLabels(lk.found.T)
    IN  /\ Elems(lk.found.aliases) = exp
        /\ Len(lk.found.aliases) = Cardinality(exp)
        /\ lk.found.hasLinks <=> (exp # {})

\* [[a#s|h]] and [[a]] in the first note, [[a|k]] in the second: h, a, k.
C4_Witness ==
  /\ lk.on /\ lk.found.valid /\ lk.passes = 0 /\ lk.found.T = Ca
  /\ lk.segs["n1.md"] = <<Ref(<<>>, Ca, Frag, TRUE, Ch),
                          Ref(<<>>, Ca, <<>>, FALSE, <<>>)>>
  /\ lk.found.aliases = <<Ch, Ca, Ck>>

\* C5: when no document other than the new one holds a reference whose
\* target is exactly T, the matcher returns hasLinks = false and no label.
C5_NoFalsePositive ==
  (lk.on /\ lk.found.valid /\ lk.passes = 0) =>
    ((\A p \in HOthers : \A j \in DOMAIN lk.segs[p] :
         ~IsRefTo(lk.segs[p][j], lk.found.T))
       => (~lk.found.hasLinks /\ lk.found.aliases = <<>>))

\* Target a; the notes hold only [[ab]] and [[A]], the new document [[a]].
C5_Witness ==
  /\ lk.on /\ lk.found.valid /\ lk.passes = 0 /\ lk.found.T = Ca
  /\ lk.segs["n1.md"] = <<Ref(<<>>, Cab, <<>>, FALSE, <<>>),
                          Ref(<<>>, CA, <<>>, FALSE, <<>>)>>
  /\ lk.segs["n2.md"] = <<>>
  /\ lk.segs[HNew] # <<>>
  /\ ~lk.found.hasLinks

\* C6: a handler whose matching pass found no reference stops there: it
\* never reaches the rewriter or the merger and writes nothing.
C6_NoOpPipeline ==
  \A i \in DOMAIN pipes :
    (~pipes[i].hasLinks /\ pipes[i].pc \notin {"waiting", "find", "failed"})
      => (pipes[i].pc = "skipped" /\ ~pipes[i].wrote)

\* b.md was created beside a note without a link to b, and its handler
\* stopped after reading the note.
C6_Witness ==
  \E i \in DOMAIN pipes :
    /\ pipes[i].pc = "skipped"
    /\ pipes[i].mdFiles # <<>>
    /\ vault[pipes[i].file] = EmptyFile

\* C7: a create notification for a path that is in knownFiles starts no
\* handler and leaves knownFiles as it is.
C7_KnownCreateIgnored ==
  [][\A p \in Paths :
       (p \in knownFiles /\ (VaultCreate(p) \/ CreateNotify(p)))
         => (pipes' = pipes /\ knownFiles' = knownFiles)]_vars

\* After ready, a create notification came for a known markdown document.
C7_Witness ==
  /\ ready
  /\ lastEvt.kind = "create" /\ lastEvt.did = "known"
  /\ lastEvt.path \in knownFiles

C9_RewriteIdempotent ==
  (lk.on /\ lk.passes >= 2 /\ lk.lastT = lk.prevT) =>
    (lk.docs = lk.prev /\ lk.count = 0)

\* Two passes for a in a row, the first of which rewrote the first note.
C9_Witness ==
  /\ lk.on /\ lk.passes = 2 /\ lk.lastT = Ca /\ lk.prevT = Ca
  /\ lk.docs["n1.md"] # RenderAll(lk.segs["n1.md"])


\* The value of an entry written in a document: the text between its quotes.
EntryValue(e) ==
  IF Len(e) >= 2 /\ e[1] \in Quotes /\ e[Len(e)] = e[1]
    THEN SubSeq(e, 2, Len(e) - 1) ELSE e

EntryValues(entries) == [k \in DOMAIN entries |-> EntryValue(entries[k])]

\* The documents that differ from document d only in the aliases field and
\* hold label a exactly once in it.
MergedOnce(d, a) ==
  {MetaDoc(k, p, e, q, d.body) :
     k \in {"inline", "block"},
     p \in {d.pre, d.pre \o d.post}, q \in {d.post, <<>>},
     e \in {x \in {d.entries, Append(d.entries, a)} :
             Count(EntryValues(x), a) = 1}}

\* The alias list of the document holds label a exactly once.
HoldsOnce(kind, src, doc, a) ==
  IF kind = "fm" THEN doc.t = "list" /\ Count(doc.v, a) = 1
  ELSE \E d \in MergedOnce(src, a) :
         d.pre \o d.post = src.pre \o src.post /\ RenderMeta(d) = doc

\* C10: merging the same label twice into a document (with no metadata
\* block, a block without an aliases field, an inline list or a block list)
\* leaves exactly one occurrence of the label in the alias list, and the
\* second merge leaves the content unchanged.
C10_MergeIdempotent ==
  (mg.on /\ Len(mg.labels) >= 2 /\ mg.labels[1] = mg.labels[2]
     /\ (mg.kind = "text" => mg.src.kind # "scalar"))
    => /\ mg.docs[3] = mg.docs[2]
       /\ HoldsOnce(mg.kind, mg.src, mg.docs[2], mg.labels[1])

\* C11: merging a label into a document without a metadata block gives a
\* document that starts with a new metadata block whose only field is an
\* aliases list with exactly that label, followed by the original content;
\* for the parsed metadata, an absent aliases property becomes the list of
\* that one label.
C11_MetadataCreated ==
  (mg.on /\ Len(mg.labels) >= 1)
    => /\ (mg.kind = "text" /\ mg.src.kind = "none")
            => mg.docs[2] =
                 RenderMeta(MetaDoc("block", <<>>, <<mg.labels[1]>>, <<>>,
                                    mg.docs[1]))
       /\ (mg.kind = "fm" /\ mg.src = NoAliases)
            => mg.docs[2] = ListAliases(<<mg.labels[1]>>)

C11_Witness ==
  /\ mg.on /\ mg.kind = "text" /\ mg.src.kind = "none"
  /\ mg.docs[1] # <<>>
  /\ Len(mg.labels) >= 1
  /\ Len(mg.docs[2]) > Len(mg.docs[1])

IsPrefix(p, str) == Len(p) <= Len(str) /\ SubSeq(str, 1, Len(p)) = p
IsSuffix(p, str) ==
  Len(p) <= Len(str) /\ SubSeq(str, Len(str) - Len(p) + 1, Len(str)) = p

\* What stands before the aliases field of the merged document d, and what
\* stands after it: for a block without the field, the whole metadata body
\* stands before it.
FrameHead(d) ==
  Dashes \o <<"\n">>
    \o (IF d.kind = "fields"
          THEN Join(d.pre \o d.post, <<"\n">>) \o <<"\n">>
        ELSE IF d.pre = <<>> THEN <<>>
        ELSE Join(d.pre, <<"\n">>) \o <<"\n">>)

FrameTail(d) ==
  (IF d.kind = "fields" \/ d.post = <<>> THEN <<>>
   ELSE <<"\n">> \o Join(d.post, <<"\n">>))
    \o <<"\n">> \o Dashes \o <<"\n">> \o d.body

\* The frame of one merge of label a into document d, giving doc.
FrameKept(d, doc, a) ==
  /\ IsPrefix(FrameHead(d), doc)
  /\ IsSuffix(FrameTail(d), doc)
  /\ Len(doc) >= Len(FrameHead(d)) + Len(FrameTail(d))
  /\ HasAt(doc, Len(FrameHead(d)) + 1, AliasesKey \o <<":">>)
  /\ d.kind = "fields"
       => SubSeq(doc, Len(FrameHead(d)) + 1, Len(doc) - Len(FrameTail(d)))
            = AliasesKey \o <<":", "\n">> \o BlockItem(a)

\* C12: for every document with a metadata block (an empty block body
\* included) and every label, a merge leaves the other metadata fields,
\* their order and the body after the block unchanged character for
\* character; when the block has no aliases field the field is appended
\* at the end of the metadata body.
C12_MergeFrame ==
  (mg.on /\ mg.kind = "text" /\ mg.src.kind # "none" /\ Len(mg.labels) >= 1)
    => FrameKept(mg.src, mg.docs[2], mg.labels[1])

\* The same, for the blocks whose body is not empty.
C12_FrameNonEmptyBody ==
  (mg.on /\ mg.kind = "text" /\ mg.src.kind # "none" /\ Len(mg.labels) >= 1
     /\ ~(mg.src.kind = "fields" /\ mg.src.pre \o mg.src.post = <<>>))
    => FrameKept(mg.src, mg.docs[2], mg.labels[1])

\* The entries after label a is merged into a list holding `entries`.
MergedEntries(entries, a) ==
  IF ArrIncludes(EntryValues(entries), a) THEN entries
  ELSE Append(entries, a)

\* One merge of label a into the list of document d gave doc: the entries
\* of d in their order, unaltered, then a if it was absent, in the style
\* of d, a new block item right after the last entry.
ListMerged(kind, d, doc, a) ==
  IF kind = "fm"
    THEN doc = ListAliases(IF ArrIncludes(d.v, a) THEN d.v
                           ELSE Append(d.v, a))
  ELSE doc = RenderMeta([d EXCEPT !.entries = MergedEntries(d.entries, a)])

HasList(kind, d) ==
  IF kind = "fm" THEN d.t = "list" ELSE d.kind \in {"inline", "block"}

\* C13: an existing alias list, inline or block, is merged and not
\* overwritten: after a merge the entries are the entries before it in
\* their order, followed by the label if it was absent; no entry is
\* removed, split or altered, an inline list stays inline, and a new block
\* item stands immediately after the last entry.
C13_ListMergedNotOverwritten ==
  (mg.on /\ HasList(mg.kind, mg.src) /\ Len(mg.labels) >= 1)
    => ListMerged(mg.kind, mg.src, mg.docs[2], mg.labels[1])

\* The same, for the lists none of whose entries is written in quotes.
C13_MergedUnquoted ==
  (mg.on /\ HasList(mg.kind, mg.src) /\ Len(mg.labels) >= 1
     /\ (mg.kind = "text" => EntryValues(mg.src.entries) = mg.src.entries))
    => ListMerged(mg.kind, mg.src, mg.docs[2], mg.labels[1])

\* The Link Matcher, scanning c from index i the way pattern.exec does,
\* finds a reference to T without a label (group 3 unset).
RECURSIVE BareFrom(_, _, _)
BareFrom(c, i, T) ==
  IF i > Len(c) THEN FALSE
  ELSE LET m == TargetMatchAt(c, i, T)
       IN  IF m.ok
             THEN \/ \A k \in i..m.last : c[k] # "|"
                  \/ BareFrom(c, m.last + 1, T)
             ELSE BareFrom(c, i + 1, T)

\* C14: after one Link Rewriter run for target T on a corpus nobody else
\* modifies, no document other than the new one holds a reference to T
\* that the Link Matcher classifies as bare, so a later Link Matcher run
\* reports every reference to T with an explicit label.
C14_AllBarePatched ==
  (lk.on /\ lk.passes >= 1)
    => \A f \in HOthers : ~BareFrom(lk.docs[f], 1, lk.lastT)

\* The same, for the corpora in which every reference opens right at its
\* two brackets (no bracket stands directly before them).
C14_PatchedWhenGroupsAgree ==
  (lk.on /\ lk.passes >= 1
     /\ \A f \in HOthers : \A k \in DOMAIN lk.segs[f] :
          lk.segs[f][k].ref => lk.segs[f][k].pre = <<>>)
    => \A f \in HOthers : ~BareFrom(lk.docs[f], 1, lk.lastT)

\* The stages of a handler, in the order of the handler's code.
Stage(pc) ==
  IF pc = "waiting" THEN 0
  ELSE IF pc = "find" THEN 1
  ELSE IF pc \in {"patch", "patchWrite"} THEN 2
  ELSE IF pc = "merge" THEN 3
  ELSE 4

\* One step of the system, seen from the handler that was q and is r.
OrderedStep(q, r) ==
  \* stages are passed in order, and the wait is left by resolving it
  /\ Stage(r.pc) >= Stage(q.pc)
  /\ (q.pc = "waiting" /\ r.pc # "waiting")
       => ~r.listening /\ r.stabilizeTimer = NoTimer /\ r.maxTimer = NoTimer
  \* nothing is written and nothing is matched during the wait
  /\ q.pc = "waiting"
       => ~q.wrote /\ ~q.hasLinks /\ q.aliases = <<>> /\ q.patchedCount = 0
  \* the label set changes only while matching, before any write
  /\ (r.aliases # q.aliases \/ r.hasLinks # q.hasLinks)
       => q.pc \in {"waiting", "find"} /\ ~q.wrote
  \* a rewrite write comes after matching and before every merge
  /\ r.patchedCount # q.patchedCount
       => q.pc = "patchWrite" /\ r.aliases = q.aliases /\ q.ai = 0
  \* a merge comes after every rewrite write
  /\ (q.pc = "merge" /\ r # q)
       => r.patchedCount = q.patchedCount /\ q.buf = NoFile
            /\ r.pc \in {"merge", "done", "failed"}

\* C15: within one handler the stabilization wait resolves before matching
\* begins, matching is complete before the first rewrite write, every
\* rewrite write is complete before the first alias merge, and nothing is
\* written before the wait has resolved.
C15_PipelineOrdering ==
  [][/\ \A i \in DOMAIN pipes : OrderedStep(pipes[i], pipes'[i])
     /\ \A i \in DOMAIN pipes' \ DOMAIN pipes :
          pipes'[i].pc = "waiting" /\ ~pipes'[i].wrote]_vars

C15_Witness ==
  \E i \in DOMAIN pipes :
    /\ pipes[i].pc = "done"
    /\ pipes[i].patchedCount >= 1
    /\ Len(pipes[i].aliases) >= 2
    /\ Elems(pipes[i].aliases) \subseteq Elems(vault[pipes[i].file].fm.v)

\* When the quiet period of the wait last started: at the last modify
\* notification for the awaited document, or when the wait began.
QuietSince == IF wt.lastMod = NoTimer THEN 0 ELSE wt.lastMod

\* C16: unless maxWaitMs has elapsed, the wait does not resolve earlier
\* than stabilizeMs after the most recent modify notification for the
\* awaited document (a modification at 100 ms: not before 600 ms); each
\* such notification restarts the stabilize timer, and notifications for
\* other documents do not.
C16_QuietPeriod ==
  wt.on =>
    /\ wt.resolves >= 1
         => \/ wt.resolvedAt >= maxWaitMs
            \/ wt.resolvedAt >= QuietSince + stabilizeMs
    /\ wt.pipe.pc = "waiting"
         => wt.pipe.stabilizeTimer = QuietSince + stabilizeMs - wt.now

C16_Witness ==
  /\ wt.on /\ wt.resolves = 1
  /\ wt.lastMod = 100
  /\ wt.resolvedAt = 600

\* C17: whatever the modify notifications, also when they keep arriving
\* at intervals shorter than stabilizeMs, the wait resolves no later than
\* maxWaitMs after it began.
C17_Ceiling ==
  wt.on =>
    /\ wt.pipe.pc = "waiting" => wt.now <= maxWaitMs
    /\ wt.resolves >= 1 => wt.resolvedAt <= maxWaitMs

C17_Witness ==
  /\ wt.on /\ wt.resolves = 1
  /\ wt.resolvedAt = maxWaitMs
  /\ wt.lastMod > maxWaitMs - stabilizeMs

\* C18: the wait resolves exactly once; from then on its modify listener
\* is unsubscribed and both timers are cancelled, and no later notification
\* or timer has any effect on it.
C18_Release ==
  /\ [](wt.on =>
          /\ wt.resolves <= 1
          /\ wt.pipe.pc # "waiting"
               => /\ wt.resolves = 1
                  /\ ~wt.pipe.listening
                  /\ wt.pipe.stabilizeTimer = NoTimer
                  /\ wt.pipe.maxTimer = NoTimer)
  /\ [][(wt.on /\ wt.pipe.pc # "waiting")
          => /\ wt'.pipe = wt.pipe
             /\ wt'.resolves = wt.resolves
             /\ wt'.resolvedAt = wt.resolvedAt]_vars

C18_Witness ==
  /\ wt.on /\ wt.resolves = 1
  /\ wt.lastMod # NoTimer
  /\ wt.now >= wt.resolvedAt + stabilizeMs

\* The paths that leave the vault in a step, and those that enter it.
Gone == {p \in Paths : vault[p].exists /\ ~vault'[p].exists}
Come == {p \in Paths : ~vault[p].exists /\ vault'[p].exists}

\* C19: a deletion notification removes the deleted path from knownFiles;
\* a rename notification removes the old path and adds the new one;
\* neither starts a handler; and a creation notification for a path that
\* was deleted or renamed away after ready is novel again: it starts a
\* handler.
C19_KnownSetTransitions ==
  [][/\ \A p \in Gone :
          Come = {}
            => /\ knownFiles' = knownFiles \ {p}
               /\ Len(pipes') = Len(pipes)
     /\ \A old \in Gone : \A new \in Come :
          /\ knownFiles' = (knownFiles \ {old}) \cup {new}
          /\ Len(pipes') = Len(pipes)
     /\ (lastEvt' # lastEvt /\ lastEvt'.kind = "create" /\ ready
           /\ IsMd(lastEvt'.path) /\ lastEvt'.path \notin knownFiles)
          => /\ Len(pipes') = Len(pipes) + 1
             /\ pipes'[Len(pipes')].file = lastEvt'.path
             /\ lastEvt'.path \in knownFiles']_vars

\* n.md is in the snapshot; its creation starts a handler only after it
\* has been deleted or renamed away.
C19_Witness ==
  /\ lastEvt = [kind |-> "create", path |-> "n.md", did |-> "started"]
  /\ \E i \in DOMAIN pipes : pipes[i].file = "n.md"
  /\ "n.md" \in knownFiles

\* The documents the last rewriter pass wrote.
Written == {p \in DOMAIN lk.docs : lk.docs[p] # lk.prev[p]}

\* C20: the Link Rewriter writes a document only when the rewritten content
\* differs from the content read; the documents without a bare reference
\* to the target and the new document itself are never written; and
\* patchedCount is the number of documents written.
C20_WriteMinimality ==
  (lk.on /\ lk.passes >= 1) =>
    /\ lk.count = Cardinality(Written)
    /\ HNew \notin Written
    /\ \A p \in Written :
         /\ BareFrom(lk.prev[p], 1, lk.lastT)
         /\ lk.docs[p] = PatchContent(lk.prev[p], lk.lastT)

\* A pass for a that wrote the first note and nothing else, while the new
\* document holds a bare [[a]] and the second note only piped references.
C20_Witness ==
  /\ lk.on /\ lk.passes >= 1 /\ lk.lastT = Ca
  /\ Written = {"n1.md"}
  /\ lk.count = 1
  /\ BareFrom(lk.docs[HNew], 1, Ca)
  /\ lk.docs["n2.md"] # <<>>


\* The aliases property of the document is there and is not a list: a
\* scalar (aliases: h) in the text, a string or a mapping in the parsed
\* metadata.
NotAList(kind, src) ==
  IF kind = "fm" THEN src.t \in {"str", "map"} ELSE src.kind = "scalar"

\* C21: when the document has a metadata block whose aliases field is
\* neither an inline list nor a block list, a merge leaves the document as
\* it was and does not raise.
C21_ParseDegrade ==
  (mg.on /\ Len(mg.labels) >= 1 /\ NotAList(mg.kind, mg.src))
    => mg.docs[2] = mg.docs[1] /\ ~mg.raised


Stopped(q) == q.pc \in {"done", "skipped", "failed"}

\* The documents of the pass handler q was in, the new document excepted,
\* that are still in the corpus.
PassDocs(q) ==
  {q.mdFiles[j] : j \in 1..Len(q.mdFiles)} \ {q.file}

\* C22: a read or a write that fails for one document of a matching or
\* rewriting pass does not keep the handler from the other documents of the
\* pass: when a handler has stopped, no document of its pass that is still
\* there holds a bare reference to the new document's name that the
\* rewriter would patch.
C22_ErrorIsolation ==
  \A i \in DOMAIN pipes :
    Stopped(pipes[i]) =>
      \A p \in PassDocs(pipes[i]) :
        vault[p].exists =>
          PatchContent(vault[p].body, pipes[i].name) = vault[p].body


\* The same, for the handlers that stopped without a failed read or write.
C22_IsolationWithoutFailure ==
  \A i \in DOMAIN pipes :
    (Stopped(pipes[i]) /\ pipes[i].pc # "failed") =>
      \A p \in PassDocs(pipes[i]) :
        vault[p].exists =>
          PatchContent(vault[p].body, pipes[i].name) = vault[p].body

\* The plugin has nothing left to run: every handler has stopped and no
\* modify listener and no timer of a stabilization wait is left.
PluginIdle ==
  \A j \in DOMAIN pipes :
    /\ Stopped(pipes[j])
    /\ ~pipes[j].listening
    /\ pipes[j].stabilizeTimer = NoTimer /\ pipes[j].maxTimer = NoTimer

\* The aliases of the new document of handler q hold every label the
\* matcher returned to it.
HoldsLabels(q) ==
  /\ vault[q.file].fm.t = "list"
  /\ Elems(q.aliases) \subseteq Elems(vault[q.file].fm.v)

\* C23: the aliases are guarded after they are written: when another writer
\* has overwritten the new document after the merges, the labels are merged
\* again.  Once the plugin has nothing left to run, nothing more is merged,
\* so by then the new document of every completed handler (the latest for
\* its path) holds every discovered label.
C23_AliasGuard ==
  \A i \in DOMAIN pipes :
    ( /\ pipes[i].pc = "done"
      /\ PluginIdle
      /\ vault[pipes[i].file].exists
      /\ \A j \in DOMAIN pipes : j > i => pipes[j].file # pipes[i].file )
    => HoldsLabels(pipes[i])

\* Document p holds no bare reference that the rewriter patches for name.
NoBareLeft(p, name) == PatchContent(vault[p].body, name) = vault[p].body

\* C24: two handlers for distinct new documents do not lose each other's
\* rewrites: when both have completed, a third document holds no bare
\* reference to either name, whatever the order of their reads and writes.
C24_NoLostRewrite ==
  \A i, j \in DOMAIN pipes :
    ( /\ i # j
      /\ pipes[i].pc = "done" /\ pipes[j].pc = "done"
      /\ pipes[i].name # pipes[j].name )
    => \A p \in MdPaths \ {pipes[i].file, pipes[j].file} :
         vault[p].exists =>
           NoBareLeft(p, pipes[i].name) /\ NoBareLeft(p, pipes[j].name)

\* C25: a path is marked known in the step that starts its handler, before
\* the handler's first await, and a further creation notification for a
\* document that is still there and already has a handler starts no second
\* one, whether the first is in its stabilization wait, in a scan or done.
C25_OnePipelinePerCreation ==
  [][/\ (Len(pipes') = Len(pipes) + 1)
          => pipes'[Len(pipes')].file \in knownFiles'
     /\ \A p \in Paths :
          (CreateNotify(p) /\ \E i \in DOMAIN pipes : pipes[i].file = p)
            => pipes' = pipes]_vars

\* A second creation notification for a.md has been ignored and the handler
\* of a.md is suspended in a scan.
C25_Witness ==
  /\ lastEvt = [kind |-> "create", path |-> "a.md", did |-> "known"]
  /\ Len(pipes) = 1
  /\ pipes[1].file = "a.md"
  /\ pipes[1].pc \in {"find", "patch", "patchWrite"}

\* C26: once the layout is ready, the markdown paths in knownFiles are the
\* markdown documents of the corpus: every existing one is known and no
\* deleted or renamed-away one is.
C26_KnownSetInvariant ==
  ready =>
    {p \in knownFiles : IsMd(p)} = {p \in MdPaths : vault[p].exists}

\* After ready a.md was created and n.md renamed to b.md.
C26_Witness ==
  /\ ready
  /\ lastEvt = [kind |-> "rename", path |-> "b.md", did |-> "none"]
  /\ knownFiles = {"a.md", "b.md"}
  /\ ~vault["n.md"].exists

\* C27: every handler that has started stops: it completes its last merge,
\* halts after a matching pass that found nothing, or fails on a read or a
\* write.
C27_PipelineProgress ==
  \A i \in 1..MaxPipelines :
    (i \in DOMAIN pipes) ~> (i \in DOMAIN pipes /\ Stopped(pipes[i]))

\* Two handlers were in flight together: one has completed its merges and
\* the other has halted after a matching pass that found nothing.
C27_Witness ==
  /\ Len(pipes) = 2
  /\ pipes[1].pc = "done" /\ pipes[1].wrote
  /\ pipes[2].pc = "skipped"

====
